---- MODULE Spec2Model ----
(***************************************************************************)
(* A model of the GoInject container (src/container.go) and of its typed   *)
(* accessors (src/unnamed/part_000).                                       *)
(*                                                                         *)
(* The container owns two Go maps, providers (type -> instance) and        *)
(* factories (type -> factory closure), and one sync.RWMutex of which      *)
(* only RLock/RUnlock are ever called.  Every method is split at its       *)
(* accesses to the shared state, so that callers interleave as goroutines  *)
(* do.  Spec is the container used by NThreads goroutines; SpecSeq is the  *)
(* same container used by calls that never overlap.                        *)
(*                                                                         *)
(* Instances are non-nil pointers to heap objects with one field: pointer   *)
(* i > 0 is the i-th object made, by a caller for Register or by a         *)
(* registered function.  Pointer -t is the variable goroutine t hands to   *)
(* GetValue to be filled.                                                  *)
(***************************************************************************)
EXTENDS Integers, Sequences, FiniteSets, TLC

\* ------------------------------------------------------------- bounds
\* the goroutines that share the container
NThreads == 2
\* the calls that pass the check of their argument, and the writes of callers
MaxOps == 4

Threads == 1..NThreads
\* the two types of the tests (README.md:32-40)
Types == {"TestService", "AnotherService"}
\* the values of an object's field: that of a new variable (var out T), that
\* of a new object (&T{Name: "a"}), and that a caller writes
ZeroVal == ""
NewVal == "a"
WrittenVal == "b"

\* ------------------------------------------------------------- values
Nil == 0
NoEntry == 0
NoType == "none"

ErrNone == "nil"
ErrServiceNotFound == "service not found"
ErrFactoryMustBeAFunction == "factory must be a function"
ErrFactoryMustReturnOneValue == "factory must return one value"
ErrFactoryMustTakeNoArguments == "factory must take no arguments"
ErrOutputMustBeAPointer == "output must be a pointer"
\* the value of a panic raised by the reflect package or the runtime
ErrRuntime == "runtime error"

\* An argument of static type `any`: the nil interface, a plain (non-pointer,
\* non-function) value, a pointer to a value of type typ, or a function with
\* numIn parameters and numOut results whose first result is a pointer
\* (outPtr) or not, to type typ.
MkArg(k, T, ni, no, op) ==
    [kind |-> k, typ |-> T, numIn |-> ni, numOut |-> no, outPtr |-> op]

NoArg == MkArg("none", NoType, 0, 0, FALSE)
NilArg == MkArg("nil", NoType, 0, 0, FALSE)
ValueArgs == { MkArg("value", NoType, 0, 0, FALSE) }
PtrArgs == { MkArg("ptr", T, 0, 0, FALSE) : T \in Types }
\* func() *T, for every type T
GoodFuncs == { MkArg("func", T, 0, 1, TRUE) : T \in Types }
\* every other signature: parameters, no or two results, a non-pointer result
BadFuncs ==
    { MkArg("func", NoType, ni, no, op) : ni \in 0..1, no \in 0..2, op \in BOOLEAN }
        \ { MkArg("func", NoType, 0, 1, TRUE) }
NoFactory == NoArg

RegisterArgs == {NilArg} \cup ValueArgs \cup PtrArgs \cup GoodFuncs
FactoryArgs == {NilArg} \cup ValueArgs \cup PtrArgs \cup GoodFuncs \cup BadFuncs
GetArgs == {NilArg} \cup ValueArgs \cup PtrArgs

\* Container.Get, Container.GetValue, Get[T] and MustGet[T]; GetValue[T]
\* (part_000:71-73) is Container.GetValue of a *T.
GetOps == {"Get", "GetValue", "TGet", "MustGet"}
CoreOps == {"Get", "GetValue"}
TypedOps == {"TGet", "MustGet"}
CopyOps == {"GetValue"}

VARIABLES
    providers,  \* Container.providers: type -> object (NoEntry: no key)
    factories,  \* Container.factories: type -> function (NoFactory: no key)
    readers,    \* Container.mu: the number of holders of the read lock
    objs,       \* the heap: objs[i] is the object behind pointer i
    slot,       \* the heap: slot[t] is the variable behind pointer -t
    pc,         \* where each goroutine is
    loc,        \* the call each goroutine is in, and its locals
    res,        \* what the last call handed to its caller, until the next call
    calls,      \* how often the functions returning each type were invoked
    nops,       \* the calls counted by MaxOps so far
    fatal,      \* the runtime has ended the process
    \* what has happened so far, for the properties below
    registered, \* the types Register has stored an instance for
    settled,    \* per type: the instance of the Register that returned last,
                \* Nil once another Register for the type has been called
    first,      \* per type: the first instance a function made that Get returned
    overwritten,\* the types Register has stored an instance for since first
    got,        \* per type: the instances Container.Get has returned
    last        \* the last operation on the container to return

hvars == <<registered, settled, first, overwritten, got, last>>
vars == <<providers, factories, readers, objs, slot, pc, loc, res, calls, nops, fatal,
          registered, settled, first, overwritten, got, last>>

NoLoc == [op |-> "none", arg |-> NoArg, service |-> Nil, out |-> Nil,
          invoked |-> FALSE, expect |-> Nil]
NoLast == [op |-> "none", typ |-> NoType, service |-> Nil, err |-> ErrNone,
           invoked |-> FALSE]
NoObj == [typ |-> NoType, val |-> ZeroVal]
NoRes == [op |-> "none", arg |-> NoArg, val |-> Nil, err |-> ErrNone, panic |-> FALSE]

\* New (src/container.go:33): both maps empty, the lock free.
New ==
    /\ providers = [T \in Types |-> NoEntry]
    /\ factories = [T \in Types |-> NoFactory]
    /\ readers = 0

Init ==
    /\ New
    /\ objs = <<>>
    /\ slot = [t \in Threads |-> NoObj]
    /\ pc = [t \in Threads |-> "idle"]
    /\ loc = [t \in Threads |-> NoLoc]
    /\ res = NoRes
    /\ calls = [T \in Types |-> 0]
    /\ nops = 0
    /\ fatal = FALSE
    /\ registered = {}
    /\ settled = [T \in Types |-> Nil]
    /\ first = [T \in Types |-> Nil]
    /\ overwritten = {}
    /\ got = [T \in Types |-> {}]
    /\ last = NoLast

\* ------------------------------------------------------------- reflect
\* reflect.TypeOf(x).Kind() / reflect.ValueOf(x).Type().Kind(): both panic
\* on the nil interface (a nil reflect.Type, the zero reflect.Value).
Kind(a) == a.kind
IsNilInterface(a) == a.kind = "nil"

\* Outcomes of a call: a returned value and error, or a panic.
Returns(v, e) == [val |-> v, err |-> e, panic |-> FALSE]
Panics(e) == [val |-> Nil, err |-> e, panic |-> TRUE]

\* The dynamic type of the object behind a pointer.
Deref(p) == IF p > 0 THEN objs[p] ELSE IF p < 0 THEN slot[-p] ELSE NoObj
TypeOfObj(p) == Deref(p).typ

\* Get[T] (part_000:39-58) given what Container.Get returned.
GenericGet(T, v, err) ==
    IF err # ErrNone THEN Returns(Nil, err)
    ELSE IF TypeOfObj(v) # T THEN Returns(Nil, ErrOutputMustBeAPointer)
    ELSE Returns(v, ErrNone)

\* MustGet[T] were it to hand the error of Get[T] on instead of panicking.
MustGetNoPanic(T, v, err) == GenericGet(T, v, err)

\* MustGet[T] (part_000:82-92) given what Container.Get returned.
MustGet(T, v, err) ==
    LET r == GenericGet(T, v, err)
    IN  IF r.err # ErrNone THEN Panics(r.err) ELSE Returns(r.val, ErrNone)

\* The operations were GetValue to return nil whatever Container.Get
\* returned (lines 160-162 left out).
OutcomeNoError(op, T, out, v, err) ==
    CASE op = "Get" -> Returns(v, err)
      [] op = "TGet" -> GenericGet(T, v, err)
      [] op = "MustGet" -> MustGet(T, v, err)
      [] OTHER -> Returns(out, ErrNone)

\* What the operation op hands to its caller once Container.Get has
\* returned (v, err); for the copying operations, once Container.GetValue has.
\* The caller of a copying operation gets the error and keeps its slot, out.
Outcome(op, T, out, v, err) ==
    CASE op = "Get" -> Returns(v, err)
      [] op = "TGet" -> GenericGet(T, v, err)
      [] op = "MustGet" -> MustGet(T, v, err)
      [] OTHER -> Returns(out, err)

\* What the caller of the call l sees when it ends with outcome o.
Result(l, o) ==
    [op |-> l.op, arg |-> l.arg, val |-> o.val, err |-> o.err, panic |-> o.panic]

\* The call of goroutine t ends with outcome o.
Return(t, o) ==
    /\ pc' = [pc EXCEPT ![t] = "idle"]
    /\ res' = Result(loc[t], o)
    /\ loc' = [loc EXCEPT ![t] = NoLoc]

Goto(t, l) == pc' = [pc EXCEPT ![t] = l]

\* Goroutines are interchangeable: of those that are in no call, the first
\* makes the next call or write.
Idle(t) == pc[t] = "idle" /\ \A u \in Threads : u < t => pc[u] # "idle"

RLock == readers' = readers + 1
RUnlock == readers' = readers - 1

Alloc(T, v) == objs' = Append(objs, [typ |-> T, val |-> v])
NewObj == Len(objs) + 1

\* The check of Register were it to answer with another error.
RegisterCheckOtherError(a) ==
    IF IsNilInterface(a) THEN Panics(ErrRuntime)
    ELSE IF Kind(a) # "ptr" THEN Returns(Nil, ErrFactoryMustBeAFunction)
    ELSE Returns(Nil, ErrNone)

\* ------------------------------------------------------------- Register
\* container.go:90-95: what the check of the argument ends the call with,
\* if it does.  reflect.TypeOf(nil) is nil, and line 92 panics on it.
RegisterCheck(a) ==
    IF IsNilInterface(a) THEN Panics(ErrRuntime)
    ELSE IF Kind(a) # "ptr" THEN Returns(Nil, ErrOutputMustBeAPointer)
    ELSE Returns(Nil, ErrNone)

\* container.go:89-98.  The caller builds its argument (&T{...} for a
\* pointer) and calls Register, which checks it and takes the read lock.
CallRegister(t, args) ==
    /\ ~fatal /\ Idle(t)
    /\ \E a \in args :
        LET o == RegisterCheck(a)
            l == [NoLoc EXCEPT !.op = "Register", !.arg = a]
        IN  IF o.panic \/ o.err # ErrNone
               THEN /\ res' = Result(l, o)
                    /\ UNCHANGED <<objs, readers, pc, loc, nops, settled>>
               ELSE /\ nops < MaxOps
                    /\ Alloc(a.typ, NewVal)
                    /\ RLock
                    /\ Goto(t, "reg_store")
                    /\ loc' = [u \in Threads |->
                                 IF u = t THEN [l EXCEPT !.service = NewObj]
                                 ELSE IF loc[u].arg.typ = a.typ
                                         THEN [loc[u] EXCEPT !.expect = Nil]
                                         ELSE loc[u]]
                    /\ settled' = [settled EXCEPT ![a.typ] = Nil]
                    /\ nops' = nops + 1
                    /\ res' = NoRes
    /\ UNCHANGED <<providers, factories, slot, calls, fatal>>
    /\ UNCHANGED <<registered, first, overwritten, got, last>>

\* Register were it to keep an instance the container already holds for the
\* type (line 100 only for a key not yet there).
RegisterStoreIfAbsent(t) ==
    /\ ~fatal /\ pc[t] = "reg_store"
    /\ providers' = IF providers[loc[t].arg.typ] = NoEntry
                       THEN [providers EXCEPT ![loc[t].arg.typ] = loc[t].service]
                       ELSE providers
    /\ RUnlock
    /\ Return(t, Returns(Nil, ErrNone))
    /\ UNCHANGED <<factories, objs, slot, calls, nops, fatal>>
    /\ LET T == loc[t].arg.typ
       IN  /\ registered' = registered \cup {T}
           /\ overwritten' = IF first[T] # Nil THEN overwritten \cup {T} ELSE overwritten
           /\ settled' = [settled EXCEPT ![T] = loc[t].service]
           /\ last' = [NoLast EXCEPT !.op = "Register", !.typ = T,
                                     !.service = loc[t].service]
    /\ UNCHANGED <<first, got>>

\* container.go:100-102, and the deferred RUnlock of line 98
RegisterStore(t) ==
    /\ ~fatal /\ pc[t] = "reg_store"
    /\ providers' = [providers EXCEPT ![loc[t].arg.typ] = loc[t].service]
    /\ RUnlock
    /\ Return(t, Returns(Nil, ErrNone))
    /\ UNCHANGED <<factories, objs, slot, calls, nops, fatal>>
    /\ LET T == loc[t].arg.typ
       IN  /\ registered' = registered \cup {T}
           /\ overwritten' = IF first[T] # Nil THEN overwritten \cup {T} ELSE overwritten
           /\ settled' = [settled EXCEPT ![T] =
                    IF \E u \in Threads \ {t} : pc[u] = "reg_store" /\ loc[u].arg.typ = T
                       THEN Nil ELSE loc[t].service]
           /\ last' = [NoLast EXCEPT !.op = "Register", !.typ = T,
                                     !.service = loc[t].service]
    /\ UNCHANGED <<first, got>>

\* ------------------------------------------------------ RegisterFactory
\* container.go:53-74: what the validation ends the call with, if it does.
\* reflect.ValueOf(nil) is the zero Value, and line 55 panics on it.
Validate(a) ==
    IF IsNilInterface(a) THEN Panics(ErrRuntime)
    ELSE IF Kind(a) # "func" THEN Returns(Nil, ErrFactoryMustBeAFunction)
    ELSE IF a.numIn # 0 THEN Returns(Nil, ErrFactoryMustTakeNoArguments)
    ELSE IF a.numOut # 1 THEN Returns(Nil, ErrFactoryMustReturnOneValue)
    ELSE IF ~a.outPtr THEN Returns(Nil, ErrOutputMustBeAPointer)
    ELSE Returns(Nil, ErrNone)

\* container.go:48-74: the read lock is taken, the argument validated; a
\* return or a panic runs the deferred RUnlock of line 51.
CallRegisterFactory(t, args) ==
    /\ ~fatal /\ Idle(t)
    /\ \E a \in args :
        LET o == Validate(a)
            l == [NoLoc EXCEPT !.op = "RegisterFactory", !.arg = a]
        IN  IF o.panic \/ o.err # ErrNone
               THEN /\ res' = Result(l, o)
                    /\ UNCHANGED <<readers, pc, loc, nops>>
               ELSE /\ nops < MaxOps
                    /\ RLock
                    /\ Goto(t, "rf_store")
                    /\ loc' = [loc EXCEPT ![t] = l]
                    /\ nops' = nops + 1
                    /\ res' = NoRes
    /\ UNCHANGED <<providers, factories, objs, slot, calls, fatal, hvars>>

\* RegisterFactory were it to file the function under another type than
\* the one the function returns.
RegisterFactoryStoreWrongKey(t) ==
    /\ ~fatal /\ pc[t] = "rf_store"
    /\ LET U == CHOOSE U \in Types : U # loc[t].arg.typ
       IN  factories' = [factories EXCEPT ![U] = loc[t].arg]
    /\ RUnlock
    /\ Return(t, Returns(Nil, ErrNone))
    /\ last' = [NoLast EXCEPT !.op = "RegisterFactory", !.typ = loc[t].arg.typ]
    /\ UNCHANGED <<providers, objs, slot, calls, nops, fatal>>
    /\ UNCHANGED <<registered, settled, first, overwritten, got>>

\* RegisterFactory were it to call the function at once and keep what it
\* made.
RegisterFactoryStoreEager(t) ==
    /\ ~fatal /\ pc[t] = "rf_store"
    /\ factories' = [factories EXCEPT ![loc[t].arg.typ] = loc[t].arg]
    /\ Alloc(loc[t].arg.typ, NewVal)
    /\ calls' = [calls EXCEPT ![loc[t].arg.typ] = @ + 1]
    /\ providers' = [providers EXCEPT ![loc[t].arg.typ] = NewObj]
    /\ RUnlock
    /\ Return(t, Returns(Nil, ErrNone))
    /\ last' = [NoLast EXCEPT !.op = "RegisterFactory", !.typ = loc[t].arg.typ]
    /\ UNCHANGED <<slot, nops, fatal>>
    /\ UNCHANGED <<registered, settled, first, overwritten, got>>

\* RegisterFactory were it to drop the instance held for the type, for the
\* new function to make another.
RegisterFactoryStoreReset(t) ==
    /\ ~fatal /\ pc[t] = "rf_store"
    /\ factories' = [factories EXCEPT ![loc[t].arg.typ] = loc[t].arg]
    /\ providers' = [providers EXCEPT ![loc[t].arg.typ] = NoEntry]
    /\ RUnlock
    /\ Return(t, Returns(Nil, ErrNone))
    /\ last' = [NoLast EXCEPT !.op = "RegisterFactory", !.typ = loc[t].arg.typ]
    /\ UNCHANGED <<objs, slot, calls, nops, fatal>>
    /\ UNCHANGED <<registered, settled, first, overwritten, got>>

\* container.go:76-80, and the deferred RUnlock of line 51
RegisterFactoryStore(t) ==
    /\ ~fatal /\ pc[t] = "rf_store"
    /\ factories' = [factories EXCEPT ![loc[t].arg.typ] = loc[t].arg]
    /\ RUnlock
    /\ Return(t, Returns(Nil, ErrNone))
    /\ last' = [NoLast EXCEPT !.op = "RegisterFactory", !.typ = loc[t].arg.typ]
    /\ UNCHANGED <<providers, objs, slot, calls, nops, fatal>>
    /\ UNCHANGED <<registered, settled, first, overwritten, got>>

\* ------------------------------------------------------------------ Get
\* container.go:118-123: what the check of the argument ends Container.Get
\* with, if it does.
GetCheck(a) ==
    IF IsNilInterface(a) THEN Panics(ErrRuntime)
    ELSE IF Kind(a) # "ptr" THEN Returns(Nil, ErrOutputMustBeAPointer)
    ELSE Returns(Nil, ErrNone)

\* Container.Get returns (v, err) to the operation the caller called: that
\* operation returns, or, for GetValue with no error, goes on to copy.
GetReturns(t, v, err) ==
    /\ IF loc[t].op \in CopyOps /\ err = ErrNone
          THEN /\ Goto(t, "gv_copy")
               /\ loc' = [loc EXCEPT ![t].service = v]
               /\ UNCHANGED res
          ELSE Return(t, Outcome(loc[t].op, loc[t].arg.typ, loc[t].out, v, err))
    /\ LET T == loc[t].arg.typ
       IN  /\ got' = IF err = ErrNone THEN [got EXCEPT ![T] = @ \cup {v}] ELSE got
           /\ first' = IF err = ErrNone /\ loc[t].invoked /\ first[T] = Nil
                          THEN [first EXCEPT ![T] = v] ELSE first
           /\ last' = [op |-> "Get", typ |-> T, service |-> v, err |-> err,
                       invoked |-> loc[t].invoked]
    /\ UNCHANGED <<registered, settled, overwritten>>

\* container.go:116-126.  Container.Get and Container.GetValue take any
\* argument; Get[T], MustGet[T] and GetValue[T] pass a *T (part_000:43, 72,
\* 84).  The slot a copying operation is given is a new variable of the
\* caller (var out T).  Get checks its argument and takes the read lock.
CallGet(t, ops, args) ==
    /\ ~fatal /\ Idle(t)
    /\ \E op \in ops, a \in args :
        /\ op \in TypedOps => a \in PtrArgs
        /\ LET o == GetCheck(a)
               copies == op \in CopyOps /\ a \in PtrArgs
               l == [NoLoc EXCEPT !.op = op, !.arg = a,
                                  !.out = IF copies THEN -t ELSE Nil,
                                  !.expect = IF a \in PtrArgs THEN settled[a.typ] ELSE Nil]
           IN  /\ slot' = IF copies
                             THEN [slot EXCEPT ![t] = [typ |-> a.typ, val |-> ZeroVal]]
                             ELSE slot
               /\ IF o.panic
                     THEN /\ res' = Result(l, o)
                          /\ UNCHANGED <<readers, pc, loc, nops>>
                  ELSE IF o.err # ErrNone
                     THEN /\ res' = Result(l, Outcome(op, a.typ, l.out, Nil, o.err))
                          /\ UNCHANGED <<readers, pc, loc, nops>>
                  ELSE /\ nops < MaxOps
                       /\ RLock
                       /\ Goto(t, "get_read")
                       /\ loc' = [loc EXCEPT ![t] = l]
                       /\ nops' = nops + 1
                       /\ res' = NoRes
    /\ UNCHANGED <<providers, factories, objs, calls, fatal, hvars>>

\* Get were it never to look for an instance (lines 128-130 left out).
GetReadMiss(t) ==
    /\ ~fatal /\ pc[t] = "get_read"
    /\ Goto(t, "get_factory")
    /\ UNCHANGED <<readers, loc, res, hvars>>
    /\ UNCHANGED <<providers, factories, objs, slot, calls, nops, fatal>>

\* container.go:128-130, and for an instance found: line 142 and the
\* deferred RUnlock of line 126
GetRead(t) ==
    /\ ~fatal /\ pc[t] = "get_read"
    /\ LET service == providers[loc[t].arg.typ]
       IN  IF service # NoEntry
              THEN /\ RUnlock
                   /\ GetReturns(t, service, ErrNone)
              ELSE /\ Goto(t, "get_factory")
                   /\ UNCHANGED <<readers, loc, res, hvars>>
    /\ UNCHANGED <<providers, factories, objs, slot, calls, nops, fatal>>

\* Get were it to fall back, for a type it has no function for, on a
\* function registered for another type.
GetFactoryAnyType(t) ==
    /\ ~fatal /\ pc[t] = "get_factory"
    /\ LET own == factories[loc[t].arg.typ]
           others == {factories[U] : U \in Types} \ {NoFactory}
           factory == IF own # NoFactory \/ others = {} THEN own
                      ELSE CHOOSE f \in others : TRUE
       IN  IF factory # NoFactory
              THEN /\ Alloc(factory.typ, NewVal)
                   /\ calls' = [calls EXCEPT ![factory.typ] = @ + 1]
                   /\ loc' = [loc EXCEPT ![t].service = NewObj, ![t].invoked = TRUE]
                   /\ Goto(t, "get_store")
                   /\ UNCHANGED <<readers, res, hvars>>
              ELSE /\ RUnlock
                   /\ GetReturns(t, Nil, ErrServiceNotFound)
                   /\ UNCHANGED <<objs, calls>>
    /\ UNCHANGED <<providers, factories, slot, nops, fatal>>

\* Get were it to return no instance and no error for a type it has no
\* function for (line 135 returning nil, nil).
GetFactoryNoError(t) ==
    /\ ~fatal /\ pc[t] = "get_factory"
    /\ LET factory == factories[loc[t].arg.typ]
       IN  IF factory # NoFactory
              THEN /\ Alloc(factory.typ, NewVal)
                   /\ calls' = [calls EXCEPT ![factory.typ] = @ + 1]
                   /\ loc' = [loc EXCEPT ![t].service = NewObj, ![t].invoked = TRUE]
                   /\ Goto(t, "get_store")
                   /\ UNCHANGED <<readers, res, hvars>>
              ELSE /\ RUnlock
                   /\ GetReturns(t, Nil, ErrNone)
                   /\ UNCHANGED <<objs, calls>>
    /\ UNCHANGED <<providers, factories, slot, nops, fatal>>

\* container.go:131-135: with no function under the key, Get returns (and
\* the deferred RUnlock of line 126 runs); else the function runs (lines
\* 76-78) and returns a new object of its result type.
GetFactory(t) ==
    /\ ~fatal /\ pc[t] = "get_factory"
    /\ LET factory == factories[loc[t].arg.typ]
       IN  IF factory # NoFactory
              THEN /\ Alloc(factory.typ, NewVal)
                   /\ calls' = [calls EXCEPT ![factory.typ] = @ + 1]
                   /\ loc' = [loc EXCEPT ![t].service = NewObj, ![t].invoked = TRUE]
                   /\ Goto(t, "get_store")
                   /\ UNCHANGED <<readers, res, hvars>>
              ELSE /\ RUnlock
                   /\ GetReturns(t, Nil, ErrServiceNotFound)
                   /\ UNCHANGED <<objs, calls>>
    /\ UNCHANGED <<providers, factories, slot, nops, fatal>>

\* Get were it not to keep the instance its function made (lines 138-140
\* left out).
GetStoreNoMemo(t) ==
    /\ ~fatal /\ pc[t] = "get_store"
    /\ RUnlock
    /\ GetReturns(t, loc[t].service, ErrNone)
    /\ UNCHANGED <<providers, factories, objs, slot, calls, nops, fatal>>

\* container.go:138-142, and the deferred RUnlock of line 126
GetStore(t) ==
    /\ ~fatal /\ pc[t] = "get_store"
    /\ providers' = [providers EXCEPT ![loc[t].arg.typ] = loc[t].service]
    /\ RUnlock
    /\ GetReturns(t, loc[t].service, ErrNone)
    /\ UNCHANGED <<factories, objs, slot, calls, nops, fatal>>

\* GetValue were it to hand out the instance itself instead of filling the
\* slot of its caller.
GetValueAlias(t) ==
    /\ ~fatal /\ pc[t] = "gv_copy"
    /\ Return(t, Returns(loc[t].service, ErrNone))
    /\ UNCHANGED <<providers, factories, readers, objs, slot, calls, nops, fatal, hvars>>

\* container.go:165-171: *out = *service; reflect's Set panics when the two
\* types differ
GetValueCopy(t) ==
    /\ ~fatal /\ pc[t] = "gv_copy"
    /\ IF TypeOfObj(loc[t].service) = TypeOfObj(loc[t].out)
          THEN /\ slot' = [slot EXCEPT ![-loc[t].out].val = Deref(loc[t].service).val]
               /\ Return(t, Returns(loc[t].out, ErrNone))
          ELSE /\ UNCHANGED slot
               /\ Return(t, Panics(ErrRuntime))
    /\ UNCHANGED <<providers, factories, readers, objs, calls, nops, fatal, hvars>>

\* ------------------------------------------------------------- callers
\* A caller writes a field through the pointer the last call handed out: the
\* instance a resolving operation returned, or the slot a copying one filled.
WriteField(t) ==
    /\ ~fatal /\ Idle(t) /\ nops < MaxOps
    /\ res.val # Nil
    /\ Deref(res.val).val # WrittenVal
    /\ IF res.val > 0
          THEN objs' = [objs EXCEPT ![res.val].val = WrittenVal] /\ UNCHANGED slot
          ELSE slot' = [slot EXCEPT ![-res.val].val = WrittenVal] /\ UNCHANGED objs
    /\ nops' = nops + 1
    /\ UNCHANGED <<providers, factories, readers, pc, loc, res, calls, fatal, hvars>>

\* ------------------------------------------------------------ the maps
\* The map a goroutine is about to read or write, if any.
ReadsMap(t) ==
    CASE pc[t] = "get_read" -> "providers"
      [] pc[t] = "get_factory" -> "factories"
      [] OTHER -> "none"
WritesMap(t) ==
    CASE pc[t] \in {"reg_store", "get_store"} -> "providers"
      [] pc[t] = "rf_store" -> "factories"
      [] OTHER -> "none"

\* Two goroutines about to access one map, one of them writing it: a data
\* race.  The accesses happen in either order (the other actions), or the
\* runtime detects them ("fatal error: concurrent map writes", "concurrent
\* map read and map write") and ends the process, goroutines and heap.
DataRace(t, u) ==
    /\ ~fatal /\ t # u
    /\ WritesMap(t) # "none"
    /\ WritesMap(t) \in {WritesMap(u), ReadsMap(u)}
    /\ fatal' = TRUE
    /\ pc' = [v \in Threads |-> "dead"]
    /\ loc' = [v \in Threads |-> NoLoc]
    /\ slot' = [v \in Threads |-> NoObj]
    /\ objs' = <<>>
    /\ res' = NoRes
    /\ UNCHANGED <<providers, factories, readers, calls, nops, hvars>>

\* ------------------------------------------------------------ behaviours
\* The steps of a call under way, and the writes of callers.
Step(t) ==
    \/ RegisterStore(t)
    \/ RegisterFactoryStore(t)
    \/ GetRead(t)
    \/ GetFactory(t)
    \/ GetStore(t)
    \/ GetValueCopy(t)
    \/ WriteField(t)

\* Goroutines share the container.  What a call does with an argument it
\* rejects, and what Get[T] and MustGet[T] do with what Container.Get
\* returned, involves no other goroutine: these are left to SpecSeq.
Next ==
    \/ \E t \in Threads :
        \/ CallRegister(t, PtrArgs)
        \/ CallRegisterFactory(t, GoodFuncs)
        \/ CallGet(t, CoreOps, PtrArgs)
        \/ Step(t)
    \/ \E t, u \in Threads : DataRace(t, u)

Spec == Init /\ [][Next]_vars

\* A single caller: no call starts before the previous one has returned.
\* Every operation, every argument.
Caller == CHOOSE t \in Threads : \A u \in Threads : t <= u

NextSeq ==
    \/ CallRegister(Caller, RegisterArgs)
    \/ CallRegisterFactory(Caller, FactoryArgs)
    \/ CallGet(Caller, GetOps, GetArgs)
    \/ Step(Caller)

SpecSeq == Init /\ [][NextSeq]_vars

\* ===================================================================
\* Properties
\* ===================================================================
\* The type a call is about.
TypeOf(t) == loc[t].arg.typ

\* In this step Container.Get, called by goroutine t, returns: last' tells
\* what.
GetReturned(t) ==
    /\ pc[t] \in {"get_read", "get_factory", "get_store"}
    /\ pc'[t] \in {"idle", "gv_copy"}

\* Goroutine t holds the read lock; it is about to write a map.
InSection(t) == pc[t] \in {"reg_store", "rf_store", "get_read", "get_factory", "get_store"}
Writing(t) == pc[t] \in {"reg_store", "rf_store", "get_store"}

\* C1: for a type that only ever had a function registered (no Register),
\* however the calls of Get overlap, the function is invoked at most once,
\* exactly once when a Get has returned an instance, and all the calls of
\* Get have returned one and the same instance.
C1_OneInvocationOneInstance ==
    \A T \in Types :
        T \notin registered /\ (\A t \in Threads : ~(pc[t] = "reg_store" /\ TypeOf(t) = T))
            => /\ calls[T] <= 1
               /\ Cardinality(got[T]) <= 1
               /\ got[T] # {} => calls[T] = 1

\* C2: a Get called after Register(v) has returned, and returning before
\* another Register for the type is called, returns v and no error.
C2_GetReturnsRegistered ==
    [][\A t \in Threads :
          GetReturned(t) /\ loc[t].expect # Nil
              => last'.err = ErrNone /\ last'.service = loc[t].expect]_vars

\* C10: no two goroutines hold the lock at once while one of them is about
\* to write a map.
C10_MutualExclusion ==
    \A t, u \in Threads :
        t # u /\ InSection(t) /\ InSection(u) => ~Writing(t) /\ ~Writing(u)

\* In this step the call of goroutine t returns to its caller: res' tells
\* what.
CallReturned(t) == pc[t] # "idle" /\ pc'[t] = "idle"

\* The container holds nothing for the type T.
Unknown(T) == providers[T] = NoEntry /\ factories[T] = NoFactory

\* C3: a Get for T that returns right after a Get for T that returned the
\* instance the function for T made, no other call on the container having
\* returned in between, returns that same instance, and without invoking
\* the function.
C3_SecondGetSameInstance ==
    [][\A t \in Threads :
          /\ GetReturned(t)
          /\ last.op = "Get" /\ last.typ = TypeOf(t)
          /\ last.invoked /\ last.err = ErrNone
          => /\ last'.err = ErrNone
             /\ last'.service = last.service
             /\ ~last'.invoked
             /\ calls' = calls]_vars

\* T has a function and no Register: a first Get made the instance, the
\* Get after it has returned that instance without a second invocation.
C3_Witness ==
    \E T \in Types :
        /\ last.op = "Get" /\ last.typ = T /\ last.err = ErrNone /\ ~last.invoked
        /\ first[T] # Nil /\ last.service = first[T]
        /\ got[T] = {first[T]} /\ calls[T] = 1
        /\ registered = {}

C5_ServiceNotFound ==
    [][\A t \in Threads :
          /\ pc[t] \in {"get_read", "get_factory", "get_store"}
          /\ pc'[t] # pc[t]
          /\ Unknown(TypeOf(t))
          => /\ providers' = providers /\ factories' = factories
             /\ GetReturned(t) =>
                   /\ last'.err = ErrServiceNotFound /\ last'.service = Nil
                   /\ loc[t].op = "Get" =>
                         res'.err = ErrServiceNotFound /\ res'.val = Nil /\ ~res'.panic]_vars

\* The container holds something for one type, and a Get for the other
\* one has returned ErrServiceNotFound.
C5_Witness ==
    \E T \in Types :
        /\ res.op = "Get" /\ res.arg.typ = T /\ res.err = ErrServiceNotFound
        /\ last.op = "Get" /\ last.typ = T
        /\ Unknown(T)
        /\ \E U \in Types : ~Unknown(U)

\* The error the four checks, taken in order, give for an argument: that of
\* the first check the argument fails.
ClaimedError(a) ==
    IF Kind(a) # "func" THEN ErrFactoryMustBeAFunction
    ELSE IF a.numIn # 0 THEN ErrFactoryMustTakeNoArguments
    ELSE IF a.numOut # 1 THEN ErrFactoryMustReturnOneValue
    ELSE IF ~a.outPtr THEN ErrOutputMustBeAPointer
    ELSE ErrNone

\* C6: RegisterFactory returns the error of the first of the four checks,
\* taken in order, that its argument fails, nil when it fails none; a call
\* that fails a check changes neither map.
C6_ValidationOrder ==
    [][res' # res /\ res'.op = "RegisterFactory"
          => /\ ~res'.panic
             /\ res'.err = ClaimedError(res'.arg)
             /\ res'.err # ErrNone => providers' = providers /\ factories' = factories]_vars

\* An argument that has a runtime type, and the type is not a pointer type.
NotAPointer(a) == Kind(a) \notin {"ptr", "nil", "none"}

C8_MustGetPanicsOrReturns ==
    [][\A t \in Threads :
          CallReturned(t) /\ loc[t].op = "MustGet"
              => /\ res'.panic <=> Unknown(TypeOf(t))
                 /\ res'.panic => res'.err = ErrServiceNotFound /\ res'.val = Nil
                 /\ ~res'.panic => /\ res'.err = ErrNone
                                   /\ res'.val # Nil
                                   /\ res'.val = providers'[TypeOf(t)]]_vars

\* MustGet has panicked for one type while the container holds an instance
\* of the other.
C8_Witness ==
    /\ res.op = "MustGet" /\ res.panic /\ res.err = ErrServiceNotFound
    /\ Unknown(res.arg.typ)
    /\ \E U \in Types : providers[U] # NoEntry

\* C9: GetValue fills the slot of its caller with the field of the instance
\* as it is then; the slot is not the instance, and neither GetValue nor a
\* later write to the slot changes the instance.
C9_GetValueCopies ==
    [][\A t \in Threads :
          /\ pc[t] = "gv_copy" /\ pc'[t] = "idle" /\ ~res'.panic
             => /\ res'.val = loc[t].out /\ res'.val # loc[t].service
                /\ slot'[-loc[t].out].val = Deref(loc[t].service).val
                /\ objs' = objs /\ providers' = providers
          /\ res.op = "GetValue" /\ slot' # slot /\ pc'[t] = pc[t] /\ ~fatal'
             => objs' = objs /\ providers' = providers]_vars

\* GetValue has filled a slot, the caller has written to it, and the
\* instance still has the field it was made with.
C9_Witness ==
    /\ res.op = "GetValue" /\ res.val < 0 /\ res.err = ErrNone
    /\ Deref(res.val).val = WrittenVal
    /\ providers[res.arg.typ] > 0
    /\ Deref(providers[res.arg.typ]).val = NewVal

\* C11: with one caller, the function registered for a type is invoked at
\* most once; it is invoked only by a step of Get or GetValue for that
\* type, taken while the container holds no instance for the type, and so
\* by no step of RegisterFactory, also not when RegisterFactory is called
\* again.
C11_InvokedOnceOnDemand ==
    [][\A T \in Types :
          /\ calls'[T] <= 1
          /\ calls'[T] # calls[T]
             => /\ calls'[T] = calls[T] + 1
                /\ providers[T] = NoEntry
                /\ \E t \in Threads :
                      /\ pc[t] = "get_factory" /\ TypeOf(t) = T
                      /\ loc[t].op \in GetOps]_vars

\* The function for T has made the instance of T, a Get has returned it,
\* and RegisterFactory for T has returned again since: one invocation.
C11_Witness ==
    \E T \in Types :
        /\ calls[T] = 1 /\ first[T] # Nil /\ providers[T] = first[T]
        /\ last.op = "RegisterFactory" /\ last.typ = T
        /\ factories[T] # NoFactory

\* C12: the instance a Register that has returned stored for T, no other
\* Register for T having been called since, is not replaced when a Get
\* stores the instance its function made.
C12_MemoKeepsRegistered ==
    [][\A t \in Threads :
          /\ pc[t] = "get_store" /\ pc'[t] # "get_store" /\ ~fatal'
          /\ settled[TypeOf(t)] # Nil
          /\ providers[TypeOf(t)] = settled[TypeOf(t)]
          => providers'[TypeOf(t)] = providers[TypeOf(t)]]_vars

C14_RegisterFactoryFrame ==
    [][\A t \in Threads :
          /\ pc'[t] = "rf_store" /\ pc[t] = "idle"
             => UNCHANGED <<providers, factories, calls, objs>>
          /\ pc[t] = "rf_store" /\ pc'[t] = "idle"
             => /\ factories'[TypeOf(t)] = loc[t].arg
                /\ \A U \in Types \ {TypeOf(t)} : factories'[U] = factories[U]
                /\ UNCHANGED <<providers, calls, objs>>
                /\ res'.err = ErrNone /\ ~res'.panic]_vars

\* RegisterFactory for T has returned: T has a function, no instance, and
\* the function has not run; the instance of the other type is in place.
C14_Witness ==
    \E T \in Types :
        /\ last.op = "RegisterFactory" /\ last.typ = T
        /\ res.op = "RegisterFactory" /\ res.err = ErrNone
        /\ factories[T] # NoFactory /\ providers[T] = NoEntry /\ calls[T] = 0
        /\ \E U \in Types \ {T} : providers[U] # NoEntry

\* C15: a new container has no instance and no function; no step removes
\* an instance slot or a function slot; and no Get for a type fails with
\* ErrServiceNotFound once a Get for the type has succeeded.
C15_SlotsNeverRemoved ==
    /\ \A T \in Types : Unknown(T)
    /\ [][\A T \in Types :
             /\ providers[T] # NoEntry => providers'[T] # NoEntry
             /\ factories[T] # NoFactory => factories'[T] # NoFactory
             /\ \A t \in Threads :
                   GetReturned(t) /\ TypeOf(t) = T /\ got[T] # {}
                       => last'.err = ErrNone]_vars

\* Two Gets for T have succeeded, with two instances: the slot was
\* overwritten in between, not removed.
C15_Witness ==
    \E T \in Types :
        /\ Cardinality(got[T]) = 2
        /\ last.op = "Get" /\ last.typ = T /\ last.err = ErrNone
        /\ providers[T] = last.service

\* The error Container.Get returns for a pointer to a T.
GetError(T) == IF Unknown(T) THEN ErrServiceNotFound ELSE ErrNone

C18_StoredTypeIsKey ==
    /\ \A T \in Types : providers[T] # NoEntry => TypeOfObj(providers[T]) = T
    /\ \A T \in Types : factories[T] # NoFactory => factories[T].typ = T
    /\ res.op = "TGet"
       => /\ ~res.panic
          /\ res.err \in {ErrNone, ErrServiceNotFound}
          /\ res.err = ErrNone => res.val # Nil /\ TypeOfObj(res.val) = res.arg.typ
          /\ res.err # ErrNone => res.val = Nil

\* Get[T] has returned the instance the function for T made, while the
\* container holds an instance of the other type that Register stored.
C18_Witness ==
    \E T \in Types :
        /\ res.op = "TGet" /\ res.arg.typ = T /\ res.err = ErrNone
        /\ calls[T] = 1 /\ res.val = providers[T] /\ T \notin registered
        /\ registered # {}

\* C19: a step changes the instance slot or the function slot of a type, or
\* invokes the function of a type, only as a step of a call for that type;
\* and the instance a Get for a type returns is of that type, made, if it
\* was made in this call, by the function registered for that type.
C19_TypesDoNotInterfere ==
    [][/\ \A U \in Types :
             \/ providers'[U] # providers[U]
             \/ factories'[U] # factories[U]
             \/ calls'[U] # calls[U]
             => \E t \in Threads :
                   pc[t] \notin {"idle", "dead"} /\ pc'[t] # pc[t] /\ TypeOf(t) = U
       /\ \A t \in Threads :
             GetReturned(t) /\ last'.err = ErrNone
                 => /\ TypeOfObj(last'.service) = TypeOf(t)
                    /\ last'.invoked => factories[TypeOf(t)] # NoFactory]_vars

\* One type has a function that has not run and no instance, and a Get for
\* the other type has returned ErrServiceNotFound.
C19_Witness ==
    \E T, U \in Types :
        /\ T # U
        /\ factories[T] # NoFactory /\ providers[T] = NoEntry /\ calls[T] = 0
        /\ last.op = "Get" /\ last.typ = U /\ last.err = ErrServiceNotFound
        /\ Unknown(U)

\* C17: a goroutine that is in a call on the container is never stopped
\* for good: it can take the next step of its call, up to the return.
C17_EveryCallGoesOn ==
    \A t \in Threads : pc[t] # "idle" => ENABLED Step(t)

====
